---------------------------- MODULE Spec2Model ----------------------------
(***************************************************************************)
(* Forward and inverse kinematics of a quadruped leg                       *)
(* (utilities/spot_micro_kinematics.py), modelled in exact arithmetic.     *)
(*                                                                         *)
(* Numbers.  The program computes in floating point.  The model computes   *)
(* with integers on the inputs for which every intermediate value of the   *)
(* program is an integer, or an angle that is a whole number of eighth     *)
(* turns:                                                                  *)
(*   - lengths and coordinates are integers; a body footprint (l, w) is    *)
(*     drawn from the even integers, so that l/2 and w/2 are exact;        *)
(*   - an angle handed to cos/sin is a whole number of eighth turns        *)
(*     (pi == 4); cos and sin are taken at quarter turns only, where they  *)
(*     are -1, 0 or 1;                                                     *)
(*   - atan2(y, x) is kept exactly, as the direction (x, y) together with  *)
(*     the eighth-turn interval its value lies in, so that sums and        *)
(*     differences of atan2 values are exact, and are read back as a       *)
(*     number of eighth turns whenever they are one.                       *)
(* Where floating point differs from real arithmetic at a discontinuity of *)
(* atan2 (the sign of -0.0, and the sign of the rounding residue of        *)
(* sin(pi) and sin(-pi)), the model follows floating point.  Where ikine   *)
(* is handed floats that a matrix product has rounded, the model takes     *)
(* every sign the rounding residues can have.                              *)
(***************************************************************************)
EXTENDS Integers, Sequences, FiniteSets, TLC

VARIABLES pc, call, ret, locals

vars == <<pc, call, ret, locals>>

---------------------------------------------------------------------------
(* Bounds of the input sets.                                               *)

\* link lengths l1, l2, l3 range over 1..MaxLen
MaxLen == 2
\* foot targets handed to ikine range over the cube -MaxCoord..MaxCoord
MaxCoord == 4
\* joint angles range over the quarter turns -MaxQuarter..MaxQuarter
MaxQuarter == 2
\* footprint l and w range over 2, 4, .., 2*MaxHalf
MaxHalf == 2
\* body translations: |x|+|y|+|z| <= MaxTrans
MaxTrans == 1
\* global foot targets of the right-back leg: |x|+|y|+|z| <= MaxFoot
MaxFoot == 1

---------------------------------------------------------------------------
(* math: pi, cos, sin, sqrt, atan2                                         *)

\* math.pi, in eighth turns
pi == 4

Abs(v) == IF v < 0 THEN -v ELSE v

\* math.cos at a whole number of quarter turns (a is in eighth turns)
Cos(a) ==
    CASE a % 8 = 0 -> 1
      [] a % 8 = 2 -> 0
      [] a % 8 = 4 -> -1
      [] a % 8 = 6 -> 0

\* math.sin at a whole number of quarter turns
Sin(a) ==
    CASE a % 8 = 0 -> 0
      [] a % 8 = 2 -> 1
      [] a % 8 = 4 -> 0
      [] a % 8 = 6 -> -1

\* The sign of the floating-point value of sin where the real value is 0:
\* sin(pi) = 1.2e-16, sin(-pi) = -1.2e-16, sin(0.0) = 0.0.
SinResidue(a) ==
    IF a = pi THEN 1 ELSE IF a = -pi THEN -1 ELSE 0

\* math.sqrt on a perfect square (a negative argument raises ValueError,
\* which the callers decide before they take the root)
IsSquare(n) == n >= 0 /\ \E s \in 0..n : s * s = n

Sqrt(n) == CHOOSE s \in 0..n : s * s = n

\* The eighth-turn interval [k, k+1) holding the principal angle of the
\* direction (re, im), k in -4..4 (k = 4 is the angle pi itself).
Oct(re, im) ==
    IF im = 0 THEN (IF re >= 0 THEN 0 ELSE 4)
    ELSE IF im > 0 THEN
        (IF re > 0 THEN (IF im < re THEN 0 ELSE 1)
         ELSE IF re = 0 THEN 2
         ELSE (IF im > -re THEN 2 ELSE 3))
    ELSE
        (IF re > 0 THEN (IF -im <= re THEN -1 ELSE -2)
         ELSE IF re = 0 THEN -2
         ELSE (IF -im >= -re THEN -3 ELSE -4))

\* An angle: its direction (re, im) and fl = floor(angle / (pi/4)).
Ang(re, im, fl) == [re |-> re, im |-> im, fl |-> fl]

\* The angle is a whole number of eighth turns (and then it is fl).
OnGrid(a) == a.re = 0 \/ a.im = 0 \/ Abs(a.re) = Abs(a.im)

\* math.atan2(y, x), where ysign is the sign floating point gives a y whose
\* real value is 0: 0 for +0.0, 1 for a positive rounding residue, -1 for
\* -0.0 or a negative rounding residue.
\*   atan2(+0.0, x) = 0 for x >= 0 and pi for x < 0;
\*   atan2(-0.0, x) = -0.0 for x > 0 and -pi for x < 0;
\*   atan2(+-1e-16, 0.0) = +-pi/2.
Atan2r(y, ysign, x) ==
    IF y # 0 THEN Ang(x, y, Oct(x, y))
    ELSE IF x > 0 THEN Ang(1, 0, 0)
    ELSE IF x < 0 THEN (IF ysign < 0 THEN Ang(-1, 0, -pi) ELSE Ang(-1, 0, pi))
    ELSE IF ysign > 0 THEN Ang(0, 1, 2)
    ELSE IF ysign < 0 THEN Ang(0, -1, -2)
    ELSE Ang(1, 0, 0)

Atan2(y, x) == Atan2r(y, 0, x)

\* a + b of two angles: the directions multiply as complex numbers, and the
\* floor of the sum is fl_a + fl_b or one more, whichever lies in the
\* eighth-turn interval of the product's direction.
AngAdd(a, b) ==
    LET re == a.re * b.re - a.im * b.im
        im == a.re * b.im + a.im * b.re
        f0 == a.fl + b.fl
    IN  Ang(re, im, IF (f0 - Oct(re, im)) % 8 = 0 THEN f0 ELSE f0 + 1)

\* -a
AngNeg(a) == Ang(a.re, -a.im, IF OnGrid(a) THEN -a.fl ELSE -a.fl - 1)

\* a - b
AngSub(a, b) == AngAdd(a, AngNeg(b))

---------------------------------------------------------------------------
(* numpy: 4x4 matrices as tuples of rows, np.block, @ and ndarray.dot      *)

Identity4 ==
    << <<1, 0, 0, 0>>,
       <<0, 1, 0, 0>>,
       <<0, 0, 1, 0>>,
       <<0, 0, 0, 1>> >>

\* a @ b for two 4x4 matrices
MatMul(a, b) ==
    [i \in 1..4 |-> [j \in 1..4 |->
        a[i][1] * b[1][j] + a[i][2] * b[2][j] + a[i][3] * b[3][j] + a[i][4] * b[4][j]]]

\* a.dot(v) for a 4x4 matrix and a length-4 vector
MatVec(a, v) ==
    [i \in 1..4 |-> a[i][1] * v[1] + a[i][2] * v[2] + a[i][3] * v[3] + a[i][4] * v[4]]

\* np.block([[r, t], [np.array([0,0,0,1])]]): the homogeneous transform of a
\* 3x3 rotation r and a translation column t
Block(r, t) ==
    << <<r[1][1], r[1][2], r[1][3], t[1]>>,
       <<r[2][1], r[2][2], r[2][3], t[2]>>,
       <<r[3][1], r[3][2], r[3][3], t[3]>>,
       <<0, 0, 0, 1>> >>

\* ht[0:3, 3] and ht[0:3, 0:3]
Translation(ht) == <<ht[1][4], ht[2][4], ht[3][4]>>

Rotation(ht) ==
    [i \in 1..3 |-> [j \in 1..3 |-> ht[i][j]]]

---------------------------------------------------------------------------
(* transformations: the rotation matrices and the rigid inverse.  The      *)
(* module is imported by the program and is not part of its source; it is  *)
(* modelled from the design's contract: right-handed rotations in the      *)
(* standard form, and the inverse as (R^T, -R^T t).                        *)

rotx(ang) ==
    << <<1, 0, 0>>,
       <<0, Cos(ang), -Sin(ang)>>,
       <<0, Sin(ang), Cos(ang)>> >>

roty(ang) ==
    << <<Cos(ang), 0, Sin(ang)>>,
       <<0, 1, 0>>,
       <<-Sin(ang), 0, Cos(ang)>> >>

rotz(ang) ==
    << <<Cos(ang), -Sin(ang), 0>>,
       <<Sin(ang), Cos(ang), 0>>,
       <<0, 0, 1>> >>

ht_inverse(ht) ==
    LET rt == [i \in 1..3 |-> [j \in 1..3 |-> ht[j][i]]]
        t  == Translation(ht)
    IN  Block(rt, [i \in 1..3 |->
                     -(rt[i][1] * t[1] + rt[i][2] * t[2] + rt[i][3] * t[3])])

---------------------------------------------------------------------------
(* Leg-mount frames                                                        *)

\* l/2 and w/2 (float division; exact on the even footprints of the model)
Half(v) == v \div 2

t_rightback(t_m, l, w) ==
    LET temp_homog_transf == Block(roty(pi \div 2), <<-Half(l), 0, Half(w)>>)
    IN  MatMul(t_m, temp_homog_transf)

t_rightfront(t_m, l, w) ==
    LET temp_homog_transf == Block(roty(pi \div 2), <<Half(l), 0, Half(w)>>)
    IN  MatMul(t_m, temp_homog_transf)

t_leftfront(t_m, l, w) ==
    LET temp_homog_transf == Block(roty(-(pi \div 2)), <<Half(l), 0, -Half(w)>>)
    IN  MatMul(t_m, temp_homog_transf)

\* t_leftback with the front legs' +l/2 left in place
t_leftback_front_offset(t_m, l, w) ==
    LET temp_homog_transf == Block(roty(-(pi \div 2)), <<Half(l), 0, -Half(w)>>)
    IN  MatMul(t_m, temp_homog_transf)

t_leftback(t_m, l, w) ==
    LET temp_homog_transf == Block(roty(-(pi \div 2)), <<-Half(l), 0, -Half(w)>>)
    IN  MatMul(t_m, temp_homog_transf)

---------------------------------------------------------------------------
(* Leg kinematic chain                                                     *)

t_0_to_1(theta1, l1) ==
    Block(rotz(theta1), <<-l1 * Cos(theta1), -l1 * Sin(theta1), 0>>)

\* the matrix as the paper prints it, which the source's comment rejects
t_1_to_2_paper ==
    << << 0, 0, -1, 0>>,
       <<-1, 0,  0, 0>>,
       << 0, 0,  1, 0>>,
       << 0, 0,  0, 1>> >>

t_1_to_2 ==
    << << 0, 0, -1, 0>>,
       <<-1, 0,  0, 0>>,
       << 0, 1,  0, 0>>,
       << 0, 0,  0, 1>> >>

t_2_to_3(theta2, l2) ==
    Block(rotz(theta2), <<l2 * Cos(theta2), l2 * Sin(theta2), 0>>)

t_3_to_4(theta3, l3) ==
    Block(rotz(theta3), <<l3 * Cos(theta3), l3 * Sin(theta3), 0>>)

t_0_to_4(theta1, theta2, theta3, l1, l2, l3) ==
    MatMul(MatMul(MatMul(t_0_to_1(theta1, l1), t_1_to_2), t_2_to_3(theta2, l2)),
           t_3_to_4(theta3, l3))

---------------------------------------------------------------------------
(* Inverse kinematics                                                      *)

\* What a call gives back: a value, or the exception that ends it.
NdArray(shape, val) == [kind |-> "ndarray", shape |-> shape, val |-> val]

Angles(q1, q2, q3) == [kind |-> "angles", q |-> <<q1, q2, q3>>]

None == [kind |-> "None"]

\* math.sqrt of a negative number: ValueError("math domain error"), raised
\* out of ikine at the line of the sqrt
ValueError(line) == [kind |-> "raise", exc |-> "ValueError", line |-> line]

\* The result is not exact in the model's numbers.
Inexact == [kind |-> "inexact"]

\* D = Dnum / Dden
Dnum(x4, y4, z4, l1, l2, l3) ==
    x4 * x4 + y4 * y4 + z4 * z4 - l1 * l1 - l2 * l2 - l3 * l3

Dden(l2, l3) == 2 * l2 * l3

\* x4**2 + y4**2 - l1**2
Radius2(x4, y4, l1) == x4 * x4 + y4 * y4 - l1 * l1

\* Arguments that are floats.  A float that ikine is handed (a foot point
\* taken from a matrix product) or computes (D, the radicand of lines 219
\* and 225) lies within rounding of its real value; where the real value
\* sits on a discontinuity of sqrt or atan2, the sign of the difference
\* decides what the code does.  A residue is that sign: of D, of the
\* radicand, of y4 and of z4.  Integer arguments have no residue.
Signs == {-1, 0, 1}

Residues == [D : Signs, r2 : Signs, y4 : Signs, z4 : Signs]

NoResidue == [D |-> 0, r2 |-> 0, y4 |-> 0, z4 |-> 0]

\* D clamped into [-1, 1]: the root never raises
SqrtOneMinusD2Clamped(num, den, dsign) == FALSE

\* sqrt(1-D**2) raises: 1 - D**2 < 0 for D = num / den, also when D is 1 or
\* -1 rounded outwards
SqrtOneMinusD2Raises(num, den, dsign) ==
    \/ num * num > den * den
    \/ num = den /\ dsign > 0
    \/ num = -den /\ dsign < 0

\* the radicand coerced to 0 when negative: the root never raises
SqrtRadius2Coerced(r2, rsign) == FALSE

\* sqrt(x4**2 + y4**2 - l1**2) raises, also when the radicand is 0 rounded
\* downwards
SqrtRadius2Raises(r2, rsign) == r2 < 0 \/ (r2 = 0 /\ rsign < 0)

\* q3 with the branch flag ignored: the positive root for all legs
ikine_q3_positive_root(D, legs12) == Atan2r(Sqrt(1 - D * D), 0, D).fl

\* q3 = atan2(+-sqrt(1-D**2), D), for D in {-1, 0, 1}; -sqrt(0) is -0.0
ikine_q3(D, legs12) ==
    IF legs12 THEN Atan2r(Sqrt(1 - D * D), 0, D).fl
              ELSE Atan2r(-Sqrt(1 - D * D), -1, D).fl

\* atan2(z4, r) of line 219, r the root of the radicand: a radicand of 0
\* rounded upwards has a root of about 1e-8, far above a residue of z4
ElevationAngle(z4, zsign, r, rsign) ==
    IF r = 0 /\ rsign > 0
    THEN (IF z4 = 0 THEN Atan2(0, 1) ELSE Atan2(z4, 0))
    ELSE Atan2r(z4, zsign, r)

\* q2 with the knee term added instead of subtracted
ikine_q2_sum(z4, zsign, r, rsign, q3, l2, l3) ==
    AngAdd(ElevationAngle(z4, zsign, r, rsign),
           Atan2r(l3 * Sin(q3), SinResidue(q3), l2 + l3 * Cos(q3)))

\* q2 = atan2(z4, r) - atan2(l3*sin(q3), l2 + l3*cos(q3)), r the root of line 219
ikine_q2(z4, zsign, r, rsign, q3, l2, l3) ==
    AngSub(ElevationAngle(z4, zsign, r, rsign),
           Atan2r(l3 * Sin(q3), SinResidue(q3), l2 + l3 * Cos(q3)))

\* q1 as the paper prints it, before the two corrections of the source's
\* comment: -y4 in the first atan2, and no factor -1
ikine_q1_paper(x4, y4, ysign, r, l1) ==
    AngNeg(AngAdd(Atan2r(-y4, -ysign, x4), Atan2(r, -l1)))

\* q1 = atan2(y4, x4) + atan2(r, -l1), r the root of line 225
ikine_q1(x4, y4, ysign, r, l1) ==
    AngAdd(Atan2r(y4, ysign, x4), Atan2(r, -l1))

\* The model's numbers hold the angles of this call exactly: D is -1, 0 or 1,
\* the root of lines 219 and 225 is an integer, and q1 and q2 are whole
\* numbers of eighth turns.
ExactAngles(x4, y4, z4, l1, l2, l3, legs12, e) ==
    LET num == Dnum(x4, y4, z4, l1, l2, l3)
        den == Dden(l2, l3)
        r2  == Radius2(x4, y4, l1)
    IN  /\ num \in {-den, 0, den}
        /\ IsSquare(r2)
        /\ OnGrid(ikine_q1(x4, y4, e.y4, Sqrt(r2), l1))
        /\ OnGrid(ikine_q2(z4, e.z4, Sqrt(r2), e.r2,
                           ikine_q3(num \div den, legs12), l2, l3))

\* ikine on floats within rounding of the integers x4, y4, z4, with the
\* residues e
ikine_float(x4, y4, z4, l1, l2, l3, legs12, e) ==
    LET num == Dnum(x4, y4, z4, l1, l2, l3)
        den == Dden(l2, l3)
        r2  == Radius2(x4, y4, l1)
    IN  IF SqrtOneMinusD2Raises(num, den, e.D)
        THEN ValueError(IF legs12 THEN 215 ELSE 217)
        ELSE IF SqrtRadius2Raises(r2, e.r2)
        THEN ValueError(219)
        ELSE IF ~ExactAngles(x4, y4, z4, l1, l2, l3, legs12, e)
        THEN Inexact
        ELSE
        LET q3 == ikine_q3(num \div den, legs12)
            q2 == ikine_q2(z4, e.z4, Sqrt(r2), e.r2, q3, l2, l3)
            q1 == ikine_q1(x4, y4, e.y4, Sqrt(r2), l1)
        IN  Angles(q1.fl, q2.fl, q3)

\* ikine on the integers x4, y4, z4
ikine(x4, y4, z4, l1, l2, l3, legs12) ==
    ikine_float(x4, y4, z4, l1, l2, l3, legs12, NoResidue)

---------------------------------------------------------------------------
(* Body pose to leg targets                                                *)

\* The frames of the four legs, as the function's local variables hold them.
leg_frames(ht_body, l, w) ==
    [ht_rb_leg |-> t_rightback(ht_body, l, w),
     ht_rf_leg |-> t_rightfront(ht_body, l, w),
     ht_lf_leg |-> t_leftback(ht_body, l, w),
     ht_lb_leg |-> t_leftfront(ht_body, l, w)]

\* the right-back target taken in the frame of the right-front leg
get_leg_delta_coords_rf_frame(ht_body, p4_coords, l, w) ==
    LET ht_rf_leg == leg_frames(ht_body, l, w).ht_rf_leg
        rb_foot_p4_global_coords ==
            <<p4_coords[1][1], p4_coords[1][2], p4_coords[1][3], 1>>
    IN  NdArray(<<4>>, MatVec(ht_inverse(ht_rf_leg), rb_foot_p4_global_coords))

\* The value returned: rb_p4_in_leg_coord_sys, an array of shape (4,).
get_leg_delta_coords(ht_body, p4_coords, l, w) ==
    LET ht_rb_leg == leg_frames(ht_body, l, w).ht_rb_leg
        rb_foot_p4_global_coords ==
            <<p4_coords[1][1], p4_coords[1][2], p4_coords[1][3], 1>>
        ht_rb_leg_inv == ht_inverse(ht_rb_leg)
    IN  NdArray(<<4>>, MatVec(ht_rb_leg_inv, rb_foot_p4_global_coords))

\* The stub: returns None.
set_pitch_ange == None

---------------------------------------------------------------------------
(* The inputs of the calls                                                 *)

LinkLengths == 1..MaxLen

Coords == -MaxCoord..MaxCoord

\* joint angles: whole quarter turns, in eighth turns
JointAngles == {2 * k : k \in -MaxQuarter..MaxQuarter}

FootprintSizes == {2 * k : k \in 1..MaxHalf}

\* the integer vectors v with |v1| + |v2| + |v3| <= n
Ball(n) ==
    {v \in (-n..n) \X (-n..n) \X (-n..n) : Abs(v[1]) + Abs(v[2]) + Abs(v[3]) <= n}

\* the rigid body poses: the 24 rotations built of quarter turns about the
\* axes, with a translation
BodyPoses ==
    {Block(Rotation(MatMul(MatMul(Block(rotx(a), <<0, 0, 0>>),
                                  Block(roty(b), <<0, 0, 0>>)),
                           Block(rotz(c), <<0, 0, 0>>))), t) :
        <<a, b, c, t>> \in {0, 2, 4, 6} \X {0, 2, 4, 6} \X {0, 2, 4, 6} \X Ball(MaxTrans)}

\* four global foot targets, in the order right-back, right-front,
\* left-front, left-back: the corners of a rectangle of the footprint's
\* size whose right-back corner is p
Stance(p, l, w) ==
    << p,
       <<p[1] + l, p[2], p[3]>>,
       <<p[1] + l, p[2], p[3] - w>>,
       <<p[1], p[2], p[3] - w>> >>

MountCalls ==
    [fn : {"t_rightback", "t_rightfront", "t_leftfront", "t_leftback"},
     t_m : BodyPoses, l : FootprintSizes, w : FootprintSizes]

JointCalls ==
    [fn : {"t_0_to_1", "t_2_to_3", "t_3_to_4"}, theta : JointAngles, len : LinkLengths]

ChainCalls ==
    [fn : {"t_0_to_4"}, theta1 : JointAngles, theta2 : JointAngles, theta3 : JointAngles,
     l1 : LinkLengths, l2 : LinkLengths, l3 : LinkLengths]

\* the calls of ikine that the model's numbers hold exactly: those a sqrt
\* ends with ValueError, and those with exact angles
IkineCalls ==
    {c \in [fn : {"ikine"}, x4 : Coords, y4 : Coords, z4 : Coords,
            l1 : LinkLengths, l2 : LinkLengths, l3 : LinkLengths, legs12 : BOOLEAN] :
        \/ Abs(Dnum(c.x4, c.y4, c.z4, c.l1, c.l2, c.l3)) > Dden(c.l2, c.l3)
        \/ Radius2(c.x4, c.y4, c.l1) < 0
        \/ ExactAngles(c.x4, c.y4, c.z4, c.l1, c.l2, c.l3, c.legs12, NoResidue)}

DeltaCalls ==
    {[fn |-> "get_leg_delta_coords", ht_body |-> b, p4_coords |-> Stance(p, l, w),
      l |-> l, w |-> w] :
        <<b, p, l, w>> \in BodyPoses \X Ball(MaxFoot) \X FootprintSizes \X FootprintSizes}

NoArgCalls == {[fn |-> "t_1_to_2"], [fn |-> "set_pitch_ange"]}

Calls ==
    MountCalls \cup JointCalls \cup ChainCalls \cup IkineCalls \cup DeltaCalls
        \cup NoArgCalls

---------------------------------------------------------------------------
(* The calls.  The program is a library of pure functions: a state is one  *)
(* call, before it runs (pc = "call") and after (pc = "returned" with the  *)
(* value in ret, or pc = "raised" with the exception in ret).              *)

NoValue == [kind |-> "none"]

Init ==
    /\ pc = "call"
    /\ call \in Calls
    /\ ret = NoValue
    /\ locals = <<>>

\* the call ends with value v and the function's locals loc
Finish(v, loc) ==
    /\ ret' = v
    /\ locals' = loc
    /\ pc' = IF v.kind = "raise" THEN "raised" ELSE "returned"
    /\ UNCHANGED call

Call_t_rightback ==
    /\ pc = "call" /\ call.fn = "t_rightback"
    /\ Finish(NdArray(<<4, 4>>, t_rightback(call.t_m, call.l, call.w)), <<>>)

Call_t_rightfront ==
    /\ pc = "call" /\ call.fn = "t_rightfront"
    /\ Finish(NdArray(<<4, 4>>, t_rightfront(call.t_m, call.l, call.w)), <<>>)

Call_t_leftfront ==
    /\ pc = "call" /\ call.fn = "t_leftfront"
    /\ Finish(NdArray(<<4, 4>>, t_leftfront(call.t_m, call.l, call.w)), <<>>)

Call_t_leftback ==
    /\ pc = "call" /\ call.fn = "t_leftback"
    /\ Finish(NdArray(<<4, 4>>, t_leftback(call.t_m, call.l, call.w)), <<>>)

Call_t_0_to_1 ==
    /\ pc = "call" /\ call.fn = "t_0_to_1"
    /\ Finish(NdArray(<<4, 4>>, t_0_to_1(call.theta, call.len)), <<>>)

Call_t_1_to_2 ==
    /\ pc = "call" /\ call.fn = "t_1_to_2"
    /\ Finish(NdArray(<<4, 4>>, t_1_to_2), <<>>)

Call_t_2_to_3 ==
    /\ pc = "call" /\ call.fn = "t_2_to_3"
    /\ Finish(NdArray(<<4, 4>>, t_2_to_3(call.theta, call.len)), <<>>)

Call_t_3_to_4 ==
    /\ pc = "call" /\ call.fn = "t_3_to_4"
    /\ Finish(NdArray(<<4, 4>>, t_3_to_4(call.theta, call.len)), <<>>)

Call_t_0_to_4 ==
    /\ pc = "call" /\ call.fn = "t_0_to_4"
    /\ Finish(NdArray(<<4, 4>>, t_0_to_4(call.theta1, call.theta2, call.theta3,
                                         call.l1, call.l2, call.l3)), <<>>)

Call_ikine ==
    /\ pc = "call" /\ call.fn = "ikine"
    /\ Finish(ikine(call.x4, call.y4, call.z4, call.l1, call.l2, call.l3, call.legs12),
              <<>>)

Call_get_leg_delta_coords ==
    /\ pc = "call" /\ call.fn = "get_leg_delta_coords"
    /\ Finish(get_leg_delta_coords(call.ht_body, call.p4_coords, call.l, call.w),
              leg_frames(call.ht_body, call.l, call.w))

Call_set_pitch_ange ==
    /\ pc = "call" /\ call.fn = "set_pitch_ange"
    /\ Finish(set_pitch_ange, <<>>)

Next ==
    \/ Call_t_rightback
    \/ Call_t_rightfront
    \/ Call_t_leftfront
    \/ Call_t_leftback
    \/ Call_t_0_to_1
    \/ Call_t_1_to_2
    \/ Call_t_2_to_3
    \/ Call_t_3_to_4
    \/ Call_t_0_to_4
    \/ Call_ikine
    \/ Call_get_leg_delta_coords
    \/ Call_set_pitch_ange

Spec == Init /\ [][Next]_vars

---------------------------------------------------------------------------
(* Properties                                                              *)

Returned(fn) == pc = "returned" /\ call.fn = fn

Ended(fn) == pc # "call" /\ call.fn = fn

\* every angle of q is a whole number of quarter turns
QuarterTurns(q) == \A i \in 1..3 : q[i] % 2 = 0

\* the foot point that forward kinematics gives for the angles q
FootOf(q, l1, l2, l3) == Translation(t_0_to_4(q[1], q[2], q[3], l1, l2, l3))

\* of the ikine call of the state: its target, D = CallDnum / CallDden, and
\* the radicand of lines 219 and 225
CallTarget == <<call.x4, call.y4, call.z4>>

CallDnum ==
    call.x4 * call.x4 + call.y4 * call.y4 + call.z4 * call.z4
        - call.l1 * call.l1 - call.l2 * call.l2 - call.l3 * call.l3

CallDden == 2 * call.l2 * call.l3

CallRadius2 == call.x4 * call.x4 + call.y4 * call.y4 - call.l1 * call.l1

\* C1: when both preconditions of the solver hold (|D| <= 1 and
\* x4^2 + y4^2 >= l1^2), ikine returns angles, for either value of legs12,
\* and forward kinematics on the returned angles gives back the target.
C1_ForwardOfInverseIsTarget ==
    (Ended("ikine") /\ Abs(CallDnum) <= CallDden /\ CallRadius2 >= 0)
        => /\ pc = "returned"
           /\ ret.kind = "angles"
           /\ QuarterTurns(ret.q)
                => FootOf(ret.q, call.l1, call.l2, call.l3) = CallTarget

\* a target of the negative-root branch, with unequal leg links, solved and
\* reproduced
C1_Witness ==
    /\ Returned("ikine") /\ ret.kind = "angles" /\ QuarterTurns(ret.q)
    /\ ~call.legs12 /\ ret.q[3] = -2 /\ call.l2 # call.l3
    /\ FootOf(ret.q, call.l1, call.l2, call.l3) = CallTarget

\* of the t_0_to_4 call of the state: its angles
ChainAngles == <<call.theta1, call.theta2, call.theta3>>

\* What ikine, with branch flag f, can give for the foot point that the
\* t_0_to_4 call of the state returned.  The code hands ikine the floats of
\* the matrix product, which carry rounding residues (l*cos(pi/2) is 6e-17,
\* l*sin(pi) is 1.2e-16, and the sums round); which residues they carry is
\* decided by the arithmetic of the build, so every residue is taken.
RoundTrip(f) ==
    LET foot == Translation(ret.val)
    IN  {ikine_float(foot[1], foot[2], foot[3], call.l1, call.l2, call.l3, f, e) :
            e \in Residues}

\* the branch flags that match theta3: True for theta3 >= 0, False for
\* theta3 <= 0
MatchingFlags(theta3) ==
    {f \in BOOLEAN : (f /\ theta3 >= 0) \/ (~f /\ theta3 <= 0)}

\* C2 as stated: for joint angles in the leg's range (each joint within a
\* quarter turn of zero) and all link lengths, forward kinematics followed
\* by ikine with the matching branch flag returns the same angles (under
\* some rounding of the foot point, at least).
C2_RoundTripAsStated ==
    (Returned("t_0_to_4") /\ \A i \in 1..3 : ChainAngles[i] \in -2..2)
        => \A f \in MatchingFlags(call.theta3) :
              Angles(call.theta1, call.theta2, call.theta3) \in RoundTrip(f)

\* the horizontal reach of the foot in the leg's plane:
\* l2*cos(theta2) + l3*cos(theta2 + theta3)
Reach ==
    call.l2 * Cos(call.theta2) + call.l3 * Cos(call.theta2 + call.theta3)

\* C2, amended: the round trip returns the same angles for the poses on the
\* solver's own branch: 0 <= theta1 <= pi, -pi/2 <= theta2 <= pi/2, the knee
\* strictly bent (0 < theta3 < pi with legs12, -pi < theta3 < 0 without) and
\* a positive reach, however the foot point is rounded.
C2_RoundTripOnSolverBranch ==
    (/\ Returned("t_0_to_4")
     /\ call.theta1 \in 0..4 /\ call.theta2 \in -2..2
     /\ call.theta3 \in (1..3) \cup (-3..-1)
     /\ Reach > 0)
        => RoundTrip(call.theta3 > 0)
              = {Angles(call.theta1, call.theta2, call.theta3)}

\* a pose of the solver's branch with unequal leg links, returned unchanged
C2_Witness ==
    /\ Returned("t_0_to_4")
    /\ ChainAngles = <<2, -2, 2>> /\ call.l2 # call.l3 /\ Reach > 0
    /\ RoundTrip(TRUE) = {Angles(2, -2, 2)}

\* C3: whenever |D| > 1 the call ends in an error reported to the caller,
\* for either value of legs12, and returns no angles.
C3_UnreachableTargetRaises ==
    (Ended("ikine") /\ Abs(CallDnum) > CallDden)
        => pc = "raised" /\ ret.kind = "raise" /\ ret.exc = "ValueError"

\* x4 = y4 = z4 = 0 with l1 = l2 = l3 = 1 (D = -3/2) has raised
C3_Witness ==
    /\ pc = "raised" /\ call.fn = "ikine"
    /\ CallTarget = <<0, 0, 0>> /\ call.l1 = 1 /\ call.l2 = 1 /\ call.l3 = 1
    /\ CallDnum = -3 /\ CallDden = 2
    /\ ret.exc = "ValueError"

\* C4: whenever |D| <= 1 and x4^2 + y4^2 < l1^2 the call ends in an error
\* reported to the caller and returns no angles; the error is raised by the
\* root of the q2 equation (line 219), not by the root of 1 - D^2 that
\* raises for an unreachable target (lines 215 and 217).
C4_DegenerateRadiusRaises ==
    (Ended("ikine") /\ Abs(CallDnum) <= CallDden /\ CallRadius2 < 0)
        => /\ pc = "raised" /\ ret.kind = "raise" /\ ret.exc = "ValueError"
           /\ ret.line = 219

\* a target inside the hip cylinder, within the reachable shell, has raised
C4_Witness ==
    /\ pc = "raised" /\ call.fn = "ikine"
    /\ Abs(CallDnum) < CallDden /\ CallRadius2 < 0
    /\ ret.line = 219

\* of the get_leg_delta_coords call of the state: the foot target of leg i
\* in the frame of leg i, for the frames in the order right-back,
\* right-front, left-front, left-back
MountFrames ==
    << t_rightback(call.ht_body, call.l, call.w),
       t_rightfront(call.ht_body, call.l, call.w),
       t_leftfront(call.ht_body, call.l, call.w),
       t_leftback(call.ht_body, call.l, call.w) >>

LegLocal(i) ==
    LET p == call.p4_coords[i]
        v == MatVec(ht_inverse(MountFrames[i]), <<p[1], p[2], p[3], 1>>)
    IN  <<v[1], v[2], v[3]>>

\* C5: get_leg_delta_coords returns four entries, one per leg in the order
\* right-back, right-front, left-front, left-back, each the three leg-local
\* coordinates of that leg's foot target.
C5_FourLegLocalTargets ==
    Returned("get_leg_delta_coords")
        => /\ ret.shape = <<4, 3>>
           /\ \A i \in 1..4 : ret.val[i] = LegLocal(i)

\* the local form of each mount frame: its rotation (+90 degrees about Y
\* for the right legs, -90 degrees for the left legs) and twice its
\* translation
MountRotation(fn) ==
    IF fn \in {"t_rightback", "t_rightfront"}
    THEN << << 0, 0, 1>>, <<0, 1, 0>>, <<-1, 0, 0>> >>
    ELSE << << 0, 0, -1>>, <<0, 1, 0>>, << 1, 0, 0>> >>

TwiceMountOffset(fn, l, w) ==
    CASE fn = "t_rightback"  -> <<-l, 0, w>>
      [] fn = "t_rightfront" -> <<l, 0, w>>
      [] fn = "t_leftfront"  -> <<l, 0, -w>>
      [] fn = "t_leftback"   -> <<-l, 0, -w>>

MountFns == {"t_rightback", "t_rightfront", "t_leftfront", "t_leftback"}

\* C6: each leg-mount function returns t_m post-multiplied by the local
\* transform of its leg: translation (-l/2,0,w/2), (l/2,0,w/2), (l/2,0,-w/2),
\* (-l/2,0,-w/2) for right-back, right-front, left-front, left-back, and
\* rotation +90 degrees about Y for the right legs, -90 for the left legs.
\* With t_m the identity and l = 4, w = 2 (l = 2, w = 1 at twice the scale)
\* the translations are (-2,0,1), (2,0,1), (2,0,-1), (-2,0,-1).
C6_MountPlacement ==
    (pc = "returned" /\ call.fn \in MountFns)
        => LET m   == ret.val
               t   == call.t_m
               rot == MountRotation(call.fn)
               off == TwiceMountOffset(call.fn, call.l, call.w)
           IN  /\ m[4] = <<0, 0, 0, 1>>
               /\ \A i \in 1..3 :
                    /\ \A j \in 1..3 :
                         m[i][j] = t[i][1] * rot[1][j] + t[i][2] * rot[2][j]
                                      + t[i][3] * rot[3][j]
                    /\ 2 * m[i][4] = t[i][1] * off[1] + t[i][2] * off[2]
                                      + t[i][3] * off[3] + 2 * t[i][4]
               /\ (t = Identity4 /\ call.l = 4 /\ call.w = 2)
                    => 2 * Translation(m)[1] = off[1]
                       /\ Translation(m)[2] = 0
                       /\ 2 * Translation(m)[3] = off[3]

\* the left-back mount of the identity pose with l = 4, w = 2
C6_Witness ==
    /\ Returned("t_leftback") /\ call.t_m = Identity4 /\ call.l = 4 /\ call.w = 2
    /\ Translation(ret.val) = <<-2, 0, -1>>

\* of the ikine call of the state: what the other branch returns
OtherBranch ==
    ikine(call.x4, call.y4, call.z4, call.l1, call.l2, call.l3, ~call.legs12)

\* what C7 says of both branches apart from the two values being distinct:
\* q3 >= 0 with legs12, q3 <= 0 without, one the negative of the other, and
\* both solutions reproduce the target
BranchesAgree(qt, qf) ==
    /\ qt[3] >= 0 /\ qf[3] <= 0 /\ qf[3] = -qt[3]
    /\ QuarterTurns(qt) => FootOf(qt, call.l1, call.l2, call.l3) = CallTarget
    /\ QuarterTurns(qf) => FootOf(qf, call.l1, call.l2, call.l3) = CallTarget

\* C7 as stated: for every reachable target, the boundary cases D = 1 and
\* D = -1 included, the two branches return two distinct q3 of opposite
\* sign, and both solutions reproduce the target.
C7_BranchesAsStated ==
    (Returned("ikine") /\ call.legs12 /\ ret.kind = "angles"
        /\ OtherBranch.kind = "angles")
        => /\ ret.q[3] # OtherBranch.q[3]
           /\ BranchesAgree(ret.q, OtherBranch.q)

\* C7, amended: the two values of q3 are distinct exactly when D < 1; at
\* D = 1 both branches return q3 = 0.
C7_BranchesDistinctBelowOne ==
    (Returned("ikine") /\ call.legs12 /\ ret.kind = "angles"
        /\ OtherBranch.kind = "angles")
        => /\ (CallDnum < CallDden) => ret.q[3] # OtherBranch.q[3]
           /\ (CallDnum = CallDden) => (ret.q[3] = 0 /\ OtherBranch.q[3] = 0)
           /\ BranchesAgree(ret.q, OtherBranch.q)

\* a target at the inner boundary D = -1, solved by both branches
C7_Witness ==
    /\ Returned("ikine") /\ call.legs12 /\ ret.kind = "angles"
    /\ OtherBranch.kind = "angles"
    /\ CallDnum = -CallDden
    /\ ret.q[3] = 4 /\ OtherBranch.q[3] = -4
    /\ QuarterTurns(ret.q) /\ QuarterTurns(OtherBranch.q)

\* the determinant of a 3x3 matrix
Det3(r) ==
    r[1][1] * (r[2][2] * r[3][3] - r[2][3] * r[3][2])
  - r[1][2] * (r[2][1] * r[3][3] - r[2][3] * r[3][1])
  + r[1][3] * (r[2][1] * r[3][2] - r[2][2] * r[3][1])

\* a rigid transform: bottom row (0,0,0,1), rotation block orthonormal with
\* determinant +1
IsRigid(m) ==
    /\ m[4] = <<0, 0, 0, 1>>
    /\ \A i, j \in 1..3 :
         m[i][1] * m[j][1] + m[i][2] * m[j][2] + m[i][3] * m[j][3]
             = IF i = j THEN 1 ELSE 0
    /\ Det3(Rotation(m)) = 1

\* C8: every 4x4 matrix returned by the leg-mount functions (given a rigid
\* body pose) and by t_0_to_1, t_1_to_2, t_2_to_3, t_3_to_4 and t_0_to_4 is a
\* rigid transform.
C8_ReturnedTransformsAreRigid ==
    (pc = "returned" /\ ret.kind = "ndarray" /\ ret.shape = <<4, 4>>)
        => IsRigid(ret.val)

\* the fixed joint 1 -> 2 matrix, returned
C8_Witness ==
    /\ Returned("t_1_to_2")
    /\ Rotation(ret.val) = << <<0, 0, -1>>, <<-1, 0, 0>>, <<0, 1, 0>> >>
    /\ IsRigid(ret.val)

\* C9: the vector that get_leg_delta_coords computes for the right-back leg
\* is the right-back foot target in the right-back mount frame: the mount
\* frame applied to it gives back the global target (x, y, z, 1).
C9_RightBackInverseIdentity ==
    Returned("get_leg_delta_coords")
        => LET p == call.p4_coords[1]
           IN  MatVec(t_rightback(call.ht_body, call.l, call.w), ret.val)
                   = <<p[1], p[2], p[3], 1>>

\* a call with a turned and shifted body and a target off the origin
C9_Witness ==
    /\ Returned("get_leg_delta_coords")
    /\ Rotation(call.ht_body) # Rotation(Identity4)
    /\ Translation(call.ht_body) # <<0, 0, 0>>
    /\ call.p4_coords[1] # <<0, 0, 0>>
    /\ ret.val[4] = 1

\* C10: inside get_leg_delta_coords every leg is paired with its own mount
\* frame: right-back with t_rightback, right-front with t_rightfront,
\* left-front with t_leftfront, left-back with t_leftback.
C10_EachLegItsOwnFrame ==
    Returned("get_leg_delta_coords")
        => /\ locals.ht_rb_leg = MountFrames[1]
           /\ locals.ht_rf_leg = MountFrames[2]
           /\ locals.ht_lf_leg = MountFrames[3]
           /\ locals.ht_lb_leg = MountFrames[4]

=============================================================================
